---- MODULE Spec2Model ----
(***************************************************************************)
(* A model of the virtual piano of src/components/piano.tsx: the key table *)
(* and key-binding map (pure data), the PianoKey component (press state,   *)
(* window listeners, pointer/touch handlers) and the Piano surface         *)
(* (loadPiano, the wheel effect, the loading/keys render).                 *)
(***************************************************************************)
EXTENDS Integers, Sequences, FiniteSets, TLC

VARIABLES
    isLoading,      \* Piano: useState(true)
    samplerRef,     \* Piano: samplerRef.current (0 = null, else a sampler's index)
    samplers,       \* every Tone.Sampler constructed so far: [urls, disposed]
    runs,           \* the loadPiano invocations: [pc, newSampler]
    container,      \* scrollContainerRef.current (0 = null, else a DOM element id)
    nContainers,    \* scroll container elements created so far
    wheelTarget,    \* element the wheel listener is attached to (0 = none)
    scrollLeft,     \* scrollLeft of the current scroll container
    keysMounted,    \* whether the PianoKey components are mounted
    keySampler,     \* the sampler prop the mounted keys were rendered with
    isPressed,      \* PianoKey: useState(false), per key (index into allKeys)
    listeners,      \* keydown/keyup listener pairs on the window, in order
    calls,          \* engine calls issued while handling the latest event
    event           \* the latest DOM event delivered since the last render

vars == <<isLoading, samplerRef, samplers, runs, container, nContainers,
          wheelTarget, scrollLeft, keysMounted, keySampler, isPressed,
          listeners, calls, event>>

----------------------------------------------------------------------------
(* Bounds of the model *)

\* number of loadPiano invocations explored on one surface
MaxRuns == 2
\* number of keys that receive pointer, touch and physical-key events
NumPlayed == 2
\* largest scrollLeft the scroll container's geometry allows
MaxScrollLeft == 80

----------------------------------------------------------------------------
(* Constant data *)

NOTES == <<"C", "C#", "D", "D#", "E", "F", "F#", "G", "G#", "A", "A#", "B">>
START_OCTAVE == 3
END_OCTAVE == 5

\* the object literal, one <<key, value>> per property, in source order
KEYBOARD_MAP ==
    << <<"z", "C3">>,  <<"s", "C#3">>, <<"x", "D3">>,  <<"d", "D#3">>,
       <<"c", "E3">>,  <<"v", "F3">>,  <<"g", "F#3">>, <<"b", "G3">>,
       <<"h", "G#3">>, <<"n", "A3">>,  <<"j", "A#3">>, <<"m", "B3">>,
       <<"q", "C4">>,  <<"2", "C#4">>, <<"w", "D4">>,  <<"3", "D#4">>,
       <<"e", "E4">>,  <<"r", "F4">>,  <<"5", "F#4">>, <<"t", "G4">>,
       <<"6", "G#4">>, <<"y", "A4">>,  <<"7", "A#4">>, <<"u", "B4">> >>

\* the urls of the Tone.Sampler, one <<note identifier, file name>> per property
SAMPLER_URLS ==
    << <<"A0", "A0.mp3">>,
       <<"C1", "C1.mp3">>, <<"D#1", "Ds1.mp3">>, <<"F#1", "Fs1.mp3">>, <<"A1", "A1.mp3">>,
       <<"C2", "C2.mp3">>, <<"D#2", "Ds2.mp3">>, <<"F#2", "Fs2.mp3">>, <<"A2", "A2.mp3">>,
       <<"C3", "C3.mp3">>, <<"D#3", "Ds3.mp3">>, <<"F#3", "Fs3.mp3">>, <<"A3", "A3.mp3">>,
       <<"C4", "C4.mp3">>, <<"D#4", "Ds4.mp3">>, <<"F#4", "Fs4.mp3">>, <<"A4", "A4.mp3">>,
       <<"C5", "C5.mp3">>, <<"D#5", "Ds5.mp3">>, <<"F#5", "Fs5.mp3">>, <<"A5", "A5.mp3">>,
       <<"C6", "C6.mp3">>, <<"D#6", "Ds6.mp3">>, <<"F#6", "Fs6.mp3">>, <<"A6", "A6.mp3">>,
       <<"C7", "C7.mp3">>, <<"D#7", "Ds7.mp3">>, <<"F#7", "Fs7.mp3">>, <<"A7", "A7.mp3">>,
       <<"C8", "C8.mp3">> >>

----------------------------------------------------------------------------
(* JavaScript values and string helpers *)

\* the value `undefined` (an optional chain over a failed find)
undefined == "<undefined>"

\* truthiness of a string-or-undefined value: if (keyBinding)
Truthy(v) == v # undefined /\ v # ""

\* String.prototype.includes for a one-character needle
Includes(s, c) == \E i \in 1..Len(s) : SubSeq(s, i, i) = c

\* the template literal `${note}${octave}`
KeyId(note, octave) == note \o ToString(octave)

Digits == {"0", "1", "2", "3", "4", "5", "6", "7", "8", "9"}

\* an object key that is a canonical array index ("2", "3", ...)
IsIndexKey(k) == k \in Digits

IndexValue(k) == CHOOSE d \in 0..9 : ToString(d) = k

RECURSIVE SortIndexEntries(_)
\* the index-keyed entries in ascending numeric order (selection sort)
SortIndexEntries(es) ==
    IF es = <<>> THEN <<>>
    ELSE LET m == CHOOSE i \in 1..Len(es) :
                      \A j \in 1..Len(es) :
                          IndexValue(es[i][1]) <= IndexValue(es[j][1])
         IN  <<es[m]>> \o
             SortIndexEntries(SubSeq(es, 1, m - 1) \o SubSeq(es, m + 1, Len(es)))

\* Object.entries: index keys first in ascending order, then string keys in
\* insertion order
ObjectEntries(obj) ==
    SortIndexEntries(SelectSeq(obj, LAMBDA e : IsIndexKey(e[1])))
        \o SelectSeq(obj, LAMBDA e : ~IsIndexKey(e[1]))

RECURSIVE Find_byKey(_, _)
\* a mutant: the predicate compares the entry's key, not its value
Find_byKey(entries, id) ==
    IF entries = <<>> THEN undefined
    ELSE IF entries[1][1] = id THEN entries[1][1]
    ELSE Find_byKey(Tail(entries), id)

RECURSIVE Find(_, _)
\* Array.prototype.find(([_, value]) => value === id)?.[0]
Find(entries, id) ==
    IF entries = <<>> THEN undefined
    ELSE IF entries[1][2] = id THEN entries[1][1]
    ELSE Find(Tail(entries), id)

----------------------------------------------------------------------------
(* The key table: the nested loops that fill allKeys *)

\* const keyBinding = Object.entries(KEYBOARD_MAP).find(...)?.[0]
KeyBindingOf(note, octave) ==
    Find(ObjectEntries(KEYBOARD_MAP), KeyId(note, octave))

KeyRecord(note, octave) ==
    [note |-> note, octave |-> octave,
     keyBinding |-> KeyBindingOf(note, octave),
     isBlack |-> Includes(note, "#")]

RECURSIVE NoteLoop(_, _, _)
\* for (const note of NOTES) { ...; allKeys.push(...) }
NoteLoop(acc, octave, n) ==
    IF n > Len(NOTES) THEN acc
    ELSE NoteLoop(Append(acc, KeyRecord(NOTES[n], octave)), octave, n + 1)

RECURSIVE OctaveLoop_exclusive(_, _)
\* a mutant: the loop stops before END_OCTAVE
OctaveLoop_exclusive(acc, octave) ==
    IF octave >= END_OCTAVE THEN acc
    ELSE OctaveLoop_exclusive(NoteLoop(acc, octave, 1), octave + 1)

RECURSIVE OctaveLoop(_, _)
\* for (let octave = START_OCTAVE; octave <= END_OCTAVE; octave++)
OctaveLoop(acc, octave) ==
    IF octave > END_OCTAVE THEN acc
    ELSE OctaveLoop(NoteLoop(acc, octave, 1), octave + 1)

allKeys == OctaveLoop(<<>>, START_OCTAVE)

----------------------------------------------------------------------------
(* The played keys: the inputs the events are drawn from *)

\* indices (into allKeys) of the keys that receive events: C5 (no binding),
\* C4 (bound to "q"), C3 (bound to "z")
PlayedKeys ==
    {i \in 1..Len(allKeys) :
        \E k \in 0..(NumPlayed - 1) : i = Len(allKeys) - 11 - 12 * k}

\* the physical keys typed: the played keys' bindings and one unbound key
PhysicalKeys ==
    {allKeys[i].keyBinding : i \in {j \in PlayedKeys : Truthy(allKeys[j].keyBinding)}}
        \cup {"p"}

\* the deltaY values of the wheel events
WheelDeltas == {0, 40}

NoEvent ==
    [type |-> "none", key |-> "", repeat |-> FALSE, target |-> 0,
     deltaY |-> 0, defaultPrevented |-> FALSE]

KeyboardEvent(type, key, repeat) ==
    [type |-> type, key |-> key, repeat |-> repeat, target |-> 0,
     deltaY |-> 0, defaultPrevented |-> FALSE]

PointerEvent(type, target, prevented) ==
    [type |-> type, key |-> "", repeat |-> FALSE, target |-> target,
     deltaY |-> 0, defaultPrevented |-> prevented]

WheelEvent(deltaY, prevented) ==
    [type |-> "wheel", key |-> "", repeat |-> FALSE, target |-> 0,
     deltaY |-> deltaY, defaultPrevented |-> prevented]

AllReleased == [i \in 1..Len(allKeys) |-> FALSE]

----------------------------------------------------------------------------
(* PianoKey *)

\* the part of the state a key's handlers read and write
\* st = [isPressed, calls]

\* playNote: if (sampler) { sampler.triggerAttack(id); setIsPressed(true) }
\* (a state update of a component that is no longer mounted is dropped)
playNote(st, k, sampler) ==
    IF sampler # 0
    THEN [calls |-> Append(st.calls,
                     [op |-> "triggerAttack",
                      note |-> KeyId(allKeys[k].note, allKeys[k].octave),
                      sampler |-> sampler]),
          isPressed |-> IF keysMounted THEN [st.isPressed EXCEPT ![k] = TRUE]
                        ELSE st.isPressed]
    ELSE st

\* stopNote: if (sampler) { sampler.triggerRelease(id); setIsPressed(false) }
stopNote(st, k, sampler) ==
    IF sampler # 0
    THEN [calls |-> Append(st.calls,
                     [op |-> "triggerRelease",
                      note |-> KeyId(allKeys[k].note, allKeys[k].octave),
                      sampler |-> sampler]),
          isPressed |-> IF keysMounted THEN [st.isPressed EXCEPT ![k] = FALSE]
                        ELSE st.isPressed]
    ELSE st

\* a mutant: auto-repeat events are not filtered out
handleKeyDown_repeat(st, l, e) ==
    IF e.key = l.keyBinding THEN playNote(st, l.key, l.sampler) ELSE st

\* handleKeyDown of the listener pair l
handleKeyDown(st, l, e) ==
    IF e.key = l.keyBinding /\ ~e.repeat
    THEN playNote(st, l.key, l.sampler)
    ELSE st

\* handleKeyUp of the listener pair l
handleKeyUp(st, l, e) ==
    IF e.key = l.keyBinding THEN stopNote(st, l.key, l.sampler) ELSE st

RECURSIVE Dispatch(_, _, _)
\* the window delivers a keyboard event to its listeners in registration order
Dispatch(st, ls, e) ==
    IF ls = <<>> THEN st
    ELSE Dispatch(IF e.type = "keydown" THEN handleKeyDown(st, ls[1], e)
                  ELSE handleKeyUp(st, ls[1], e),
                  Tail(ls), e)

\* a mutant: the leave handler releases unconditionally
onMouseLeave_always(st, k) == stopNote(st, k, keySampler)

\* onMouseLeave={() => isPressed && stopNote()}
onMouseLeave(st, k) ==
    IF st.isPressed[k] THEN stopNote(st, k, keySampler) ELSE st

\* the effect of a key: register the listener pair if the key has a binding
KeyEffect(ls, k, sampler) ==
    IF Truthy(allKeys[k].keyBinding)
    THEN Append(ls, [key |-> k, keyBinding |-> allKeys[k].keyBinding,
                     sampler |-> sampler])
    ELSE ls

\* a mutant: the effect returns no cleanup
KeyCleanup_none(ls, k) == ls

\* the cleanup of a key's effect: remove its listener pair
KeyCleanup(ls, k) == SelectSeq(ls, LAMBDA l : l.key # k)

RECURSIVE MountKeys(_, _, _)
\* allKeys.map(... <PianoKey .../>): the keys mount and their effects run
MountKeys(ls, k, sampler) ==
    IF k > Len(allKeys) THEN ls
    ELSE MountKeys(KeyEffect(ls, k, sampler), k + 1, sampler)

RECURSIVE UnmountKeys(_, _)
\* the keys unmount: every key's cleanup runs
UnmountKeys(ls, k) ==
    IF k > Len(allKeys) THEN ls
    ELSE UnmountKeys(KeyCleanup(ls, k), k + 1)

----------------------------------------------------------------------------
(* Piano: the surface *)

\* a mutant: the last sample of the table is missing
NewSampler_short ==
    [urls |-> SubSeq(SAMPLER_URLS, 1, Len(SAMPLER_URLS) - 1),
     release |-> 1,
     baseUrl |-> "https://tonejs.github.io/audio/salamander/",
     disposed |-> FALSE]

\* new Tone.Sampler({urls, release: 1, baseUrl}).toDestination()
NewSampler ==
    [urls |-> SAMPLER_URLS,
     release |-> 1,
     baseUrl |-> "https://tonejs.github.io/audio/salamander/",
     disposed |-> FALSE]

\* the render that follows setIsLoading(loading), with samplerRef.current = ref:
\* nothing when the flag is unchanged; the placeholder replaces the scroll
\* container and its keys when it turns true; a new scroll container and
\* the keys, each with sampler={samplerRef.current}, when it turns false
Render(loading, ref) ==
    /\ isLoading' = loading
    /\ IF loading = isLoading
       THEN UNCHANGED <<container, nContainers, scrollLeft, keysMounted,
                        keySampler, isPressed, listeners, calls, event>>
       ELSE IF loading
       THEN /\ container' = 0
            /\ scrollLeft' = 0
            /\ keysMounted' = FALSE
            /\ keySampler' = 0
            /\ isPressed' = AllReleased
            /\ listeners' = UnmountKeys(listeners, 1)
            /\ calls' = <<>>
            /\ event' = NoEvent
            /\ UNCHANGED nContainers
       ELSE /\ container' = nContainers + 1
            /\ nContainers' = nContainers + 1
            /\ scrollLeft' = 0
            /\ keysMounted' = TRUE
            /\ keySampler' = ref
            /\ isPressed' = AllReleased
            /\ listeners' = MountKeys(listeners, 1, ref)
            /\ calls' = <<>>
            /\ event' = NoEvent

\* a mutant: a reload disposes the sampler and clears the reference, but
\* leaves the loading flag alone, so the keys stay rendered
loadPianoStart_clear ==
    /\ IF samplerRef # 0
       THEN /\ samplers' = [samplers EXCEPT ![samplerRef].disposed = TRUE]
            /\ runs' = Append(runs, [pc |-> "awaitDispose", newSampler |-> 0])
            /\ samplerRef' = 0
            /\ Render(isLoading, 0)
       ELSE /\ samplers' = Append(samplers, NewSampler)
            /\ runs' = Append(runs, [pc |-> "awaitLoaded",
                                     newSampler |-> Len(samplers) + 1])
            /\ samplerRef' = samplerRef
            /\ Render(TRUE, samplerRef)

\* loadPiano up to its first await: setIsLoading(true); then either
\* dispose() of the current sampler and await it, or, with no current
\* sampler, the construction of the new one and await Tone.loaded()
loadPianoStart ==
    /\ IF samplerRef # 0
       THEN /\ samplers' = [samplers EXCEPT ![samplerRef].disposed = TRUE]
            /\ runs' = Append(runs, [pc |-> "awaitDispose", newSampler |-> 0])
       ELSE /\ samplers' = Append(samplers, NewSampler)
            /\ runs' = Append(runs, [pc |-> "awaitLoaded",
                                     newSampler |-> Len(samplers) + 1])
    /\ samplerRef' = samplerRef
    /\ Render(TRUE, samplerRef)

\* the wheel effect: its cleanup from the previous run, then
\* const container = scrollContainerRef.current; if (container) addEventListener
WheelEffect == wheelTarget' = IF container # 0 THEN container ELSE 0

\* the mount effects of Piano (and their re-runs on the same instance):
\* loadPiano() is called, then the wheel effect runs against the scroll
\* container of the render the effects belong to
RunEffects ==
    /\ Len(runs) < MaxRuns
    /\ loadPianoStart
    /\ WheelEffect

\* loadPiano after await dispose(): the new sampler is constructed
LoadConstruct(r) ==
    /\ runs[r].pc = "awaitDispose"
    /\ samplers' = Append(samplers, NewSampler)
    /\ runs' = [runs EXCEPT ![r] = [pc |-> "awaitLoaded",
                                    newSampler |-> Len(samplers) + 1]]
    /\ UNCHANGED <<isLoading, samplerRef, container, nContainers, wheelTarget,
                   scrollLeft, keysMounted, keySampler, isPressed, listeners,
                   calls, event>>

\* loadPiano after await Tone.loaded():
\* samplerRef.current = newSampler; setIsLoading(false)
LoadInstall(r) ==
    /\ runs[r].pc = "awaitLoaded"
    /\ samplerRef' = runs[r].newSampler
    /\ runs' = [runs EXCEPT ![r].pc = "done"]
    /\ Render(FALSE, runs[r].newSampler)
    /\ UNCHANGED <<samplers, wheelTarget>>

\* the scroll range of the element: scrollLeft is kept within 0..MaxScrollLeft
Clamp(x) == IF x < 0 THEN 0 ELSE IF x > MaxScrollLeft THEN MaxScrollLeft ELSE x

\* a wheel event on the current scroll container; handleWheel runs only if
\* the listener is attached to that element
Wheel(d) ==
    /\ container # 0
    /\ IF wheelTarget = container /\ d # 0
       THEN /\ scrollLeft' = Clamp(scrollLeft + d)
            /\ event' = WheelEvent(d, TRUE)
       ELSE /\ scrollLeft' = scrollLeft
            /\ event' = WheelEvent(d, FALSE)
    /\ calls' = <<>>
    /\ UNCHANGED <<isLoading, samplerRef, samplers, runs, container,
                   nContainers, wheelTarget, keysMounted, keySampler,
                   isPressed, listeners>>

----------------------------------------------------------------------------
(* User input *)

\* the state the handlers of one event start from
St0 == [isPressed |-> isPressed, calls |-> <<>>]

Deliver(st, e) ==
    /\ isPressed' = st.isPressed
    /\ calls' = st.calls
    /\ event' = e
    /\ UNCHANGED <<isLoading, samplerRef, samplers, runs, container,
                   nContainers, wheelTarget, scrollLeft, keysMounted,
                   keySampler, listeners>>

\* a keydown event on the window
KeyDown(key, repeat) ==
    /\ key \in PhysicalKeys
    /\ Deliver(Dispatch(St0, listeners, KeyboardEvent("keydown", key, repeat)),
               KeyboardEvent("keydown", key, repeat))

\* a keyup event on the window
KeyUp(key) ==
    /\ key \in PhysicalKeys
    /\ Deliver(Dispatch(St0, listeners, KeyboardEvent("keyup", key, FALSE)),
               KeyboardEvent("keyup", key, FALSE))

\* onMouseDown={() => playNote()}
MouseDown(k) ==
    /\ keysMounted
    /\ Deliver(playNote(St0, k, keySampler), PointerEvent("mousedown", k, FALSE))

\* onMouseUp={() => stopNote()}
MouseUp(k) ==
    /\ keysMounted
    /\ Deliver(stopNote(St0, k, keySampler), PointerEvent("mouseup", k, FALSE))

\* onMouseLeave
MouseLeave(k) ==
    /\ keysMounted
    /\ Deliver(onMouseLeave(St0, k), PointerEvent("mouseleave", k, FALSE))

\* onTouchStart={(e) => { e.preventDefault(); playNote() }}
TouchStart(k) ==
    /\ keysMounted
    /\ Deliver(playNote(St0, k, keySampler), PointerEvent("touchstart", k, TRUE))

\* onTouchEnd={() => stopNote()}
TouchEnd(k) ==
    /\ keysMounted
    /\ Deliver(stopNote(St0, k, keySampler), PointerEvent("touchend", k, FALSE))

----------------------------------------------------------------------------
(* The specification *)

\* the surface after its first render: loading, no sampler, no keys
Init ==
    /\ isLoading = TRUE
    /\ samplerRef = 0
    /\ samplers = <<>>
    /\ runs = <<>>
    /\ container = 0
    /\ nContainers = 0
    /\ wheelTarget = 0
    /\ scrollLeft = 0
    /\ keysMounted = FALSE
    /\ keySampler = 0
    /\ isPressed = AllReleased
    /\ listeners = <<>>
    /\ calls = <<>>
    /\ event = NoEvent

Next ==
    \/ RunEffects
    \/ \E r \in 1..Len(runs) : LoadConstruct(r)
    \/ \E r \in 1..Len(runs) : LoadInstall(r)
    \/ \E d \in WheelDeltas : Wheel(d)
    \/ \E key \in PhysicalKeys, repeat \in BOOLEAN : KeyDown(key, repeat)
    \/ \E key \in PhysicalKeys : KeyUp(key)
    \/ \E k \in PlayedKeys : MouseDown(k)
    \/ \E k \in PlayedKeys : MouseUp(k)
    \/ \E k \in PlayedKeys : MouseLeave(k)
    \/ \E k \in PlayedKeys : TouchStart(k)
    \/ \E k \in PlayedKeys : TouchEnd(k)

Spec == Init /\ [][Next]_vars

----------------------------------------------------------------------------
(* Vocabulary of the properties *)

Id(k) == KeyId(allKeys[k].note, allKeys[k].octave)

Binding(k) == allKeys[k].keyBinding

Attack(k, sampler) == [op |-> "triggerAttack", note |-> Id(k), sampler |-> sampler]

Release(k, sampler) == [op |-> "triggerRelease", note |-> Id(k), sampler |-> sampler]

\* a step that delivers a DOM event (every other step moves a loadPiano run)
UserStep == runs' = runs

\* the keys are rendered with a ready sampler
Ready == keysMounted /\ keySampler # 0

CallsFor(cs, k) == SelectSeq(cs, LAMBDA c : c.note = Id(k))

SemitoneIndex(note) == CHOOSE n \in 1..Len(NOTES) : NOTES[n] = note

Undisposed == {s \in 1..Len(samplers) : ~samplers[s].disposed}

AllRunsDone == Len(runs) > 0 /\ \A r \in 1..Len(runs) : runs[r].pc = "done"

\* the register of a note identifier: its last character, as a number
Register(id) == IndexValue(SubSeq(id, Len(id), Len(id)))

RECURSIVE SpellSharps(_)
\* the identifier with every "#" spelled "s"
SpellSharps(id) ==
    IF id = "" THEN ""
    ELSE (IF SubSeq(id, 1, 1) = "#" THEN "s" ELSE SubSeq(id, 1, 1))
             \o SpellSharps(SubSeq(id, 2, Len(id)))

UrlsWellFormed(urls, n) ==
    /\ Len(urls) = n
    /\ \A i, j \in 1..Len(urls) : urls[i][1] = urls[j][1] => i = j
    /\ {Register(urls[i][1]) : i \in 1..Len(urls)} = 0..8
    /\ \A i \in 1..Len(urls) : urls[i][2] = SpellSharps(urls[i][1]) \o ".mp3"

\* the table built by the loops: 36 entries, the cross product of the notes
\* and 3..5, no identifier twice, ordered by octave and then by semitone
KeyTableIsCrossProduct ==
    /\ Len(allKeys) = 36
    /\ {<<allKeys[i].note, allKeys[i].octave>> : i \in 1..Len(allKeys)}
         = {NOTES[n] : n \in 1..Len(NOTES)} \X (3..5)
    /\ \A i, j \in 1..Len(allKeys) : Id(i) = Id(j) => i = j
    /\ \A i, j \in 1..Len(allKeys) :
          i < j => \/ allKeys[i].octave < allKeys[j].octave
                   \/ /\ allKeys[i].octave = allKeys[j].octave
                      /\ SemitoneIndex(allKeys[i].note) < SemitoneIndex(allKeys[j].note)

\* the map against the table: 24 entries, distinct keys, distinct values,
\* each value the identifier of exactly one key, which resolves to the
\* entry's key; the other keys resolve to no binding
BindingsResolve ==
    /\ Len(KEYBOARD_MAP) = 24
    /\ \A i, j \in 1..Len(KEYBOARD_MAP) :
          (KEYBOARD_MAP[i][1] = KEYBOARD_MAP[j][1]
             \/ KEYBOARD_MAP[i][2] = KEYBOARD_MAP[j][2]) => i = j
    /\ \A e \in 1..Len(KEYBOARD_MAP) :
          /\ Cardinality({k \in 1..Len(allKeys) : Id(k) = KEYBOARD_MAP[e][2]}) = 1
          /\ \A k \in 1..Len(allKeys) :
                Id(k) = KEYBOARD_MAP[e][2] => Binding(k) = KEYBOARD_MAP[e][1]
    /\ \A k \in 1..Len(allKeys) :
          (\A e \in 1..Len(KEYBOARD_MAP) : KEYBOARD_MAP[e][2] # Id(k))
              => Binding(k) = undefined

----------------------------------------------------------------------------
(* The properties *)

\* C1: for a mounted key with a binding and a ready sampler: a non-repeat
\* keydown of the bound key on a Released key presses it and issues exactly
\* one attack for its identifier; an auto-repeat keydown issues no call and
\* changes no press state; a keyup of the bound key on a Pressed key
\* releases it and issues exactly one release for its identifier; keyboard
\* events of another key issue no call for the key and leave it as it is.
C1_PhysicalKeyPressRelease ==
    [][\A k \in PlayedKeys :
          (Ready /\ Truthy(Binding(k)) /\ UserStep) =>
              /\ (event' = KeyboardEvent("keydown", Binding(k), FALSE) /\ ~isPressed[k])
                    => (isPressed'[k] /\ calls' = <<Attack(k, keySampler)>>)
              /\ event' = KeyboardEvent("keydown", Binding(k), TRUE)
                    => (calls' = <<>> /\ isPressed' = isPressed)
              /\ (event' = KeyboardEvent("keyup", Binding(k), FALSE) /\ isPressed[k])
                    => (~isPressed'[k] /\ calls' = <<Release(k, keySampler)>>)
              /\ (event'.type \in {"keydown", "keyup"} /\ event'.key # Binding(k))
                    => (CallsFor(calls', k) = <<>> /\ isPressed'[k] = isPressed[k])
      ]_vars

\* C1 witness: the keyup of a bound key has just released it
C1_Witness ==
    \E k \in PlayedKeys :
        /\ Ready /\ Truthy(Binding(k))
        /\ event = KeyboardEvent("keyup", Binding(k), FALSE)
        /\ calls = <<Release(k, keySampler)>>
        /\ ~isPressed[k]

\* C2: with a ready sampler, a pointer-leave right after a pointer-down on
\* the same key issues exactly one release and leaves the key Released; a
\* pointer-leave on a Released key issues no call and changes no press state.
C2_PointerLeave ==
    [][\A k \in PlayedKeys :
          (Ready /\ UserStep /\ event' = PointerEvent("mouseleave", k, FALSE)) =>
              /\ event = PointerEvent("mousedown", k, FALSE)
                    => (calls' = <<Release(k, keySampler)>> /\ ~isPressed'[k])
              /\ ~isPressed[k] => (calls' = <<>> /\ isPressed' = isPressed)
      ]_vars

\* C2 witness: a pointer-leave has just released a key
C2_Witness ==
    \E k \in PlayedKeys :
        /\ Ready
        /\ event = PointerEvent("mouseleave", k, FALSE)
        /\ calls = <<Release(k, keySampler)>>
        /\ ~isPressed[k]

\* C3: while no sampler is installed in samplerRef, an event reaches no
\* triggerAttack or triggerRelease and changes no key's press state.
C3_NoOpBeforeReady ==
    [][(samplerRef = 0 /\ UserStep) => (calls' = <<>> /\ isPressed' = isPressed)]_vars

\* C3 witness: the bound key "q" went down while no sampler was installed
C3_Witness ==
    /\ samplerRef = 0
    /\ Len(runs) > 0
    /\ event = KeyboardEvent("keydown", "q", FALSE)
    /\ calls = <<>>

\* C4: once all loadPiano runs have completed, at most one sampler is
\* constructed and not disposed, and it is the installed one.
C4_DisposeBeforeInstall ==
    AllRunsDone => (Cardinality(Undisposed) <= 1 /\ Undisposed \subseteq {samplerRef})

\* C5: on the loaded surface a wheel event with deltaY # 0 adds deltaY to
\* the scroll container's scrollLeft and is default-prevented; one with
\* deltaY = 0 changes nothing and is not default-prevented.
C5_WheelRemap ==
    [][(UserStep /\ ~isLoading /\ container # 0 /\ event'.type = "wheel") =>
          IF event'.deltaY = 0
          THEN scrollLeft' = scrollLeft /\ ~event'.defaultPrevented
          ELSE scrollLeft' = scrollLeft + event'.deltaY /\ event'.defaultPrevented
      ]_vars

\* C6: the key table is the cross product of the 12 notes and octaves 3..5:
\* 36 entries, no identifier twice, ordered by octave and then by semitone.
C6_KeyTable ==
    /\ KeyTableIsCrossProduct
    /\ keysMounted => DOMAIN isPressed = 1..Len(allKeys)

\* C6 witness: the 36 keys are rendered
C6_Witness == keysMounted /\ DOMAIN isPressed = 1..36

\* C7: the map has 24 entries with distinct keys and distinct values; each
\* entry's value is the identifier of exactly one key, whose keyBinding is
\* the entry's key; a key whose identifier is no value has no keyBinding.
C7_KeyBindings ==
    /\ BindingsResolve
    /\ keysMounted =>
          \A e \in 1..Len(KEYBOARD_MAP) :
              \E l \in 1..Len(listeners) :
                  /\ listeners[l].keyBinding = KEYBOARD_MAP[e][1]
                  /\ Id(listeners[l].key) = KEYBOARD_MAP[e][2]

\* C7 witness: the keys are rendered and "q" is the listener of C4
C7_Witness ==
    /\ keysMounted
    /\ Len(listeners) = 24
    /\ \E l \in 1..Len(listeners) :
          listeners[l].keyBinding = "q" /\ Id(listeners[l].key) = "C4"

\* C8 as stated: every sampler is constructed with exactly 31 entries,
\* over registers 0..8, each file the identifier with "#" spelled "s".
C8_ThirtyOneSamples ==
    \A s \in 1..Len(samplers) : UrlsWellFormed(samplers[s].urls, 31)

\* C8 amended: every sampler is constructed with exactly 30 entries, one
\* file per identifier, over registers 0..8, each file the identifier with
\* "#" spelled "s" and ".mp3" appended.
C8_ThirtySamples ==
    \A s \in 1..Len(samplers) : UrlsWellFormed(samplers[s].urls, 30)

\* C8 witness: a sampler was constructed, with "D#3" -> "Ds3.mp3"
C8_Witness ==
    /\ Len(samplers) > 0
    /\ \E i \in 1..Len(samplers[1].urls) : samplers[1].urls[i] = <<"D#3", "Ds3.mp3">>

\* C9: in every state a key has exactly one listener pair on the window,
\* bound to the sampler it was rendered with, if it is mounted and has a
\* binding, and none otherwise; and while the keys are unmounted no event
\* issues a call.
C9_ListenerScope ==
    /\ [](\A k \in 1..Len(allKeys) :
            LET mine == SelectSeq(listeners, LAMBDA l : l.key = k)
            IN  IF keysMounted /\ Truthy(Binding(k))
                THEN mine = <<[key |-> k, keyBinding |-> Binding(k),
                               sampler |-> keySampler]>>
                ELSE mine = <<>>)
    /\ [][(~keysMounted /\ UserStep) => calls' = <<>>]_vars

\* C9 witness: a bound physical key went down after the keys were unmounted
C9_Witness ==
    /\ ~keysMounted
    /\ nContainers > 0
    /\ listeners = <<>>
    /\ event = KeyboardEvent("keydown", "q", FALSE)

\* C10: an attack is issued only for a key that is Released and a release
\* only for a key that is Pressed, so a key's calls alternate.
C10_CallsAlternate ==
    [][UserStep =>
          \A k \in PlayedKeys :
              \A i \in 1..Len(calls') :
                  calls'[i].note = Id(k) =>
                      /\ calls'[i].op = "triggerAttack" => ~isPressed[k]
                      /\ calls'[i].op = "triggerRelease" => isPressed[k]
      ]_vars

====
